---- MODULE Spec2Model ----
(***************************************************************************)
(* A model of mobile_cv/torch/utils_pytorch/distributed_helper.py:         *)
(* DistributedParams, enable_dist_process_groups,                          *)
(* _enable_local_process_group, save_return_deco,                          *)
(* default_distributed_worker, launch and _mp_spawn_helper.                *)
(*                                                                         *)
(* Python values are tagged records (PyStr, PyTimedelta, DistributedParams)*)
(* so that an argument bound to the wrong parameter keeps its type.        *)
(* An optional value is a sequence: <<>> is None, <<x>> holds x.           *)
(***************************************************************************)
EXTENDS Integers, Sequences, FiniteSets, TLC

\* ------------------------------------------------------------------ bounds
MaxMachines == 2
MaxProcs == 2
MaxDevices == 1
MaxWorld == 4
MaxScopes == 2
MaxInt == 2
MaxOps == 3

\* ------------------------------------------------------- python values
None == <<>>
Some(x) == <<x>>
IsNone(o) == o = <<>>
The(o) == o[1]

PyStr(s) == [type |-> "str", v |-> s]
PyTimedelta(t) == [type |-> "timedelta", v |-> t]

\* DEFAULT_TIMEOUT = timedelta(minutes=30)
DEFAULT_TIMEOUT == PyTimedelta(<<"0:30:00">>)
\* DEFAULT_UNITTEST_TIMEOUT = timedelta(minutes=1): a timeout a caller passes
DEFAULT_UNITTEST_TIMEOUT == PyTimedelta(<<"0:01:00">>)

\* str.lower() on the backend names the model draws
Lower(b) ==
  CASE b = "NCCL" -> "nccl"
    [] b = "nccl" -> "nccl"
    [] b = "GLOO" -> "gloo"
    [] b = "gloo" -> "gloo"
    [] b = "MPI" -> "mpi"
    [] OTHER -> b

\* str.startswith("env://") on the addresses the model draws
StartsWithEnv(url) == url \in {"env://", "env://job"}

\* ------------------------------------------------- decimal text of an int
Digits == <<"0", "1", "2", "3", "4", "5", "6", "7", "8", "9">>

RECURSIVE NatStr(_)
\* str(n) for n >= 0, as the sequence of its digit characters
NatStr(n) ==
  IF n < 10 THEN <<Digits[n + 1]>>
  ELSE Append(NatStr(n \div 10), Digits[(n % 10) + 1])

\* str(n)
IntStr(n) == IF n < 0 THEN <<"-">> \o NatStr(0 - n) ELSE NatStr(n)

DigitVal(c) == CHOOSE d \in 0..9 : Digits[d + 1] = c

IsDigit(c) == \E d \in 1..10 : Digits[d] = c

RECURSIVE NatVal(_)
NatVal(s) ==
  IF Len(s) = 1 THEN DigitVal(s[1])
  ELSE 10 * NatVal(SubSeq(s, 1, Len(s) - 1)) + DigitVal(s[Len(s)])

\* whether int(s) succeeds: an optional sign, then one or more digits
IntParses(s) ==
  LET body == IF Len(s) > 0 /\ s[1] = "-" THEN Tail(s) ELSE s
  IN  Len(body) > 0 /\ \A k \in 1..Len(body) : IsDigit(body[k])

\* int(s), for a text that parses
IntVal(s) ==
  IF s[1] = "-" THEN 0 - NatVal(Tail(s)) ELSE NatVal(s)

\* ------------------------------------------------------ DistributedParams
\* the rank equation with machine_rank and local_rank exchanged
validate_exchanged(lr, gr, mr, n, ws) == gr = lr * n + mr

\* DistributedParams.validate: the rank equation
validate(lr, gr, mr, n, ws) == gr = mr * n + lr

\* DistributedParams.__init__: the five fields, then validate(); None on a raise
DistributedParams(lr, gr, mr, n, ws) ==
  IF validate(lr, gr, mr, n, ws)
  THEN Some([type |-> "DistributedParams", local_rank |-> lr, global_rank |-> gr,
             machine_rank |-> mr, num_processes_per_machine |-> n,
             world_size |-> ws])
  ELSE None

IsDistributedParams(x) == x.type = "DistributedParams"

\* the environment variables from_environ reads, with their defaults
EnvKeys == <<"LOCAL_RANK", "RANK", "GROUP_RANK", "LOCAL_WORLD_SIZE", "WORLD_SIZE">>
EnvDefault == <<0, 0, 0, 1, 1>>

\* _get_key with 0 as the default of every key
get_key_zero(env, k) == IF IsNone(env[k]) THEN IntStr(0) ELSE The(env[k])

\* _get_key(key, default): os.environ.get(key, default); env maps a key index to
\* None or the text of the variable
get_key(env, k) == IF IsNone(env[k]) THEN IntStr(EnvDefault[k]) ELSE The(env[k])

\* the warnings _get_key logs: one per variable that is not set
from_environ_warnings(env) == {k \in 1..5 : IsNone(env[k])}

\* whether every int(...) of from_environ succeeds
from_environ_parses(env) == \A k \in 1..5 : IntParses(get_key(env, k))

\* DistributedParams.from_environ(): None when int() or validate() raises
from_environ(env) ==
  IF ~from_environ_parses(env) THEN None
  ELSE DistributedParams(IntVal(get_key(env, 1)), IntVal(get_key(env, 2)),
                         IntVal(get_key(env, 3)), IntVal(get_key(env, 4)),
                         IntVal(get_key(env, 5)))

\* ------------------------------------------------------------------ state
Machines == 0..(MaxMachines - 1)
LocalRanks == 0..(MaxProcs - 1)
\* a process: <<machine, local index>>; <<m, -1>> is the process that calls launch
Workers == Machines \X LocalRanks
Caller(m) == <<m, -1>>
Procs == Machines \X (-1..(MaxProcs - 1))

VARIABLES
  \* launch's arguments (the same call on every machine, but for machine_rank)
  num_processes_per_machine, num_machines, dist_url, backend, always_spawn,
  launch_method, timeout,
  \* torch.cuda.device_count()
  device_count,
  \* how the elastic collaborator keys the results it returns
  elastic_keys,
  \* the process calling launch on machine m: its position, what launch returned
  \* or raised, the main_func calls made in it, the children started for it
  lpc, lresult, lexc, main_calls, started,
  \* a worker process: its position, the arguments default_distributed_worker
  \* was called with, os.environ, the resolved DistributedParams
  pc, bound, environ, dist_params,
  \* comm._LOCAL_PROCESS_GROUP, the local pg of _enable_local_process_group,
  \* whether the default (global) group exists, the loop index i
  LOCAL_PROCESS_GROUP, pg, default_pg, i,
  \* the calls a process made, in order; main_func's return; the exception that
  \* left the worker; the barriers reached in the open scope; the scopes opened
  calls, ret, exc, reached, scopes,
  \* the files torch.save wrote: path -> value
  files,
  \* the inputs and the outcome of one call of a pure function
  fn_in, fn_out

cfgvars == <<num_processes_per_machine, num_machines, dist_url, backend,
             always_spawn, launch_method, timeout, device_count, elastic_keys>>
lvars == <<lpc, lresult, lexc, main_calls, started>>
wvars == <<pc, bound, environ, dist_params, LOCAL_PROCESS_GROUP, pg, default_pg,
           i, calls, ret, exc, reached, scopes>>
fnvars == <<fn_in, fn_out>>
vars == <<cfgvars, lvars, wvars, files, fnvars>>

\* ------------------------------------------------------ launch's arithmetic
\* world_size = num_machines * num_processes_per_machine
world_size_of(nm, n) == nm * n

\* local_ranks[0] without the scaling by n
local_ranks_first_unscaled(n, mr) == mr

\* local_ranks = range(n * machine_rank, n * (machine_rank + 1)); local_ranks[0]
local_ranks_first(n, mr) == n * mr

\* the assert of launch: backend == "NCCL" needs a device per process
device_assert(b, n, devices) == b = "NCCL" => n <= devices

\* the test with >= for >
takes_workers_from_one(ws, always) == ws >= 1 \/ always

\* world_size > 1 or always_spawn
takes_workers(ws, always) == ws > 1 \/ always

\* launch_method in ["multiprocessing", "elastic"]
valid_launch_method(lm) == lm \in {"multiprocessing", "elastic"}

\* the global rank without the scaling by num_processes_per_machine
mp_global_rank_unscaled(mr, n, lr) == mr + lr

\* _mp_spawn_helper: global_rank = machine_rank * num_processes_per_machine + local_rank
mp_global_rank(mr, n, lr) == mr * n + lr

\* the temporary file launch on machine m creates: return_file = f.name
return_file(m) == PyStr(<<"mcvdh_return.pth", m>>)

\* str(x) of a value used in an f-string
Str(x) == x.v

\* the path without the rank
rank_path_shared(location, rank) == <<Str(location), ".rank">>

\* f"{return_save_file}.rank{rank}"
rank_path(location, rank) == <<Str(location), ".rank", IntStr(rank)>>

\* what main_func returns in process p
main_func(p) == <<"result", p[1], p[2]>>

\* default_distributed_worker's parameters after main_func, args, kwargs, backend,
\* in the order of its signature
WorkerParams == <<"dist_url", "dist_params", "return_save_file", "timeout">>
WorkerDefaults == [dist_url |-> None, dist_params |-> None,
                   return_save_file |-> None, timeout |-> Some(DEFAULT_TIMEOUT)]

\* a call with the positional arguments pos (after backend): each is bound to the
\* parameter at its position, the rest keep their defaults
bind_positional(pos) ==
  [k \in DOMAIN WorkerDefaults |->
     LET at == {j \in 1..Len(pos) : WorkerParams[j] = k}
     IN  IF at = {} THEN WorkerDefaults[k] ELSE pos[CHOOSE j \in at : TRUE]]

\* launch, elastic: _distributed_worker(main_func, args, kwargs, backend, None, None, timeout)
elastic_call(t) == bind_positional(<<None, None, Some(t)>>)

\* launch, env://: _distributed_worker(main_func, args, kwargs, backend, dist_url,
\* return_file, timeout)
env_call(url, rf, t) == bind_positional(<<Some(PyStr(<<url>>)), Some(rf), Some(t)>>)

\* _mp_spawn_helper: distributed_worker(..., dist_url=, dist_params=,
\* return_save_file=, timeout=), by keyword
mp_call(url, dp, rf, t) ==
  [dist_url |-> Some(PyStr(<<url>>)), dist_params |-> dp,
   return_save_file |-> Some(rf), timeout |-> Some(t)]

\* dist_url is None: f"file:///tmp/mcvdh_dist_file_{time.time()}"
effective_url(url) == IF url = "None" THEN "file:///tmp/mcvdh_dist_file" ELSE url

\* the variables the elastic collaborator sets for local worker l of machine m
elastic_environ(m, l, nm, n) ==
  <<Some(IntStr(l)), Some(IntStr(m * n + l)), Some(IntStr(m)), Some(IntStr(n)),
    Some(IntStr(nm * n))>>

NoEnviron == <<None, None, None, None, None>>

\* the children of the launch on machine m
Children(m) == {w \in Workers : w[1] = m /\ w[2] < num_processes_per_machine}

\* the workers of the job
ActiveWorkers == {w \in Workers : w[1] < num_machines /\ w[2] < num_processes_per_machine}

Exited(p) == pc[p] \in {"done", "failed", "killed"}

\* ------------------------------------------------------------------- launch
LaunchRaise(m, e) ==
  /\ lpc' = [lpc EXCEPT ![m] = "raised"]
  /\ lexc' = [lexc EXCEPT ![m] = e]
  /\ UNCHANGED lresult

LaunchReturn(m, v) ==
  /\ lpc' = [lpc EXCEPT ![m] = "returned"]
  /\ lresult' = [lresult EXCEPT ![m] = Some(v)]
  /\ UNCHANGED lexc

\* launch, the assert on the device count fails
LaunchDeviceAssert(m) ==
  /\ lpc[m] = "idle"
  /\ ~device_assert(backend, num_processes_per_machine, device_count)
  /\ LaunchRaise(m, "AssertionError")
  /\ UNCHANGED <<cfgvars, main_calls, started, wvars, files, fnvars>>

\* launch, else branch: return main_func(*args, **kwargs)
LaunchDirect(m) ==
  /\ lpc[m] = "idle"
  /\ device_assert(backend, num_processes_per_machine, device_count)
  /\ ~takes_workers(world_size_of(num_machines, num_processes_per_machine), always_spawn)
  /\ main_calls' = [main_calls EXCEPT ![m] = @ + 1]
  /\ \/ LaunchReturn(m, main_func(Caller(m)))
     \/ LaunchRaise(m, "UserError")
  /\ UNCHANGED <<cfgvars, started, wvars, files, fnvars>>

\* launch: raise ValueError(f"Invalid launch_method: {launch_method}")
LaunchInvalidMethod(m) ==
  /\ lpc[m] = "idle"
  /\ device_assert(backend, num_processes_per_machine, device_count)
  /\ takes_workers(world_size_of(num_machines, num_processes_per_machine), always_spawn)
  /\ ~valid_launch_method(launch_method)
  /\ LaunchRaise(m, "ValueError")
  /\ UNCHANGED <<cfgvars, main_calls, started, wvars, files, fnvars>>

\* launch, elastic: pet.elastic_launch(lc, entrypoint=_distributed_worker)(...);
\* the collaborator starts nproc_per_node workers and sets their environment
LaunchElastic(m) ==
  /\ lpc[m] = "idle"
  /\ device_assert(backend, num_processes_per_machine, device_count)
  /\ takes_workers(world_size_of(num_machines, num_processes_per_machine), always_spawn)
  /\ valid_launch_method(launch_method)
  /\ launch_method = "elastic"
  /\ lpc' = [lpc EXCEPT ![m] = "elastic_wait"]
  /\ started' = [started EXCEPT ![m] = @ + num_processes_per_machine]
  /\ pc' = [p \in Procs |-> IF p \in Children(m) THEN "start" ELSE pc[p]]
  /\ bound' = [p \in Procs |-> IF p \in Children(m) THEN elastic_call(timeout)
                               ELSE bound[p]]
  /\ environ' = [p \in Procs |->
                   IF p \in Children(m)
                   THEN elastic_environ(m, p[2], num_machines, num_processes_per_machine)
                   ELSE environ[p]]
  /\ UNCHANGED <<cfgvars, lresult, lexc, main_calls, dist_params,
                 LOCAL_PROCESS_GROUP, pg, default_pg, i, calls, ret, exc, reached,
                 scopes, files, fnvars>>

\* launch, multiprocessing with an env:// address: the worker runs in this process
LaunchEnv(m) ==
  /\ lpc[m] = "idle"
  /\ device_assert(backend, num_processes_per_machine, device_count)
  /\ takes_workers(world_size_of(num_machines, num_processes_per_machine), always_spawn)
  /\ valid_launch_method(launch_method)
  /\ launch_method # "elastic"
  /\ StartsWithEnv(effective_url(dist_url))
  /\ lpc' = [lpc EXCEPT ![m] = "env_wait"]
  /\ pc' = [pc EXCEPT ![Caller(m)] = "start"]
  /\ bound' = [bound EXCEPT ![Caller(m)] =
                 env_call(effective_url(dist_url), return_file(m), timeout)]
  /\ UNCHANGED <<cfgvars, lresult, lexc, main_calls, started, environ, dist_params,
                 LOCAL_PROCESS_GROUP, pg, default_pg, i, calls, ret, exc, reached,
                 scopes, files, fnvars>>

\* _mp_spawn_helper in child l of machine m: DistributedParams(local_rank=l,
\* machine_rank=m, global_rank=..., ...); None when the constructor raises
mp_params(m, l) ==
  DistributedParams(l, mp_global_rank(m, num_processes_per_machine, l), m,
                    num_processes_per_machine,
                    world_size_of(num_machines, num_processes_per_machine))

\* launch, multiprocessing: mp.spawn(_mp_spawn_helper, nprocs=n, args=...); each
\* child runs _mp_spawn_helper(local_rank, ...) up to its call of the worker
LaunchSpawn(m) ==
  /\ lpc[m] = "idle"
  /\ device_assert(backend, num_processes_per_machine, device_count)
  /\ takes_workers(world_size_of(num_machines, num_processes_per_machine), always_spawn)
  /\ valid_launch_method(launch_method)
  /\ launch_method # "elastic"
  /\ ~StartsWithEnv(effective_url(dist_url))
  /\ lpc' = [lpc EXCEPT ![m] = "spawn_wait"]
  /\ started' = [started EXCEPT ![m] = @ + num_processes_per_machine]
  /\ pc' = [p \in Procs |->
              IF p \notin Children(m) THEN pc[p]
              ELSE IF IsNone(mp_params(m, p[2])) THEN "failed" ELSE "start"]
  /\ exc' = [p \in Procs |->
               IF p \in Children(m) /\ IsNone(mp_params(m, p[2])) THEN "ValueError"
               ELSE exc[p]]
  /\ bound' = [p \in Procs |->
                 IF p \in Children(m)
                 THEN mp_call(effective_url(dist_url), mp_params(m, p[2]),
                              return_file(m), timeout)
                 ELSE bound[p]]
  /\ UNCHANGED <<cfgvars, lresult, lexc, main_calls, environ, dist_params,
                 LOCAL_PROCESS_GROUP, pg, default_pg, i, calls, ret, reached,
                 scopes, files, fnvars>>

\* ------------------------------------------------------------- the worker
Call(op, arg) == [op |-> op, arg |-> arg]

Fail(p, e) ==
  /\ pc' = [pc EXCEPT ![p] = "failed"]
  /\ exc' = [exc EXCEPT ![p] = e]

\* dist_params = dist_params or DistributedParams.from_environ()
resolve_dist_params(b, env) ==
  IF IsNone(b.dist_params) THEN from_environ(env) ELSE b.dist_params

\* assert backend.lower() in ["nccl", "gloo"]
backend_assert(b) == Lower(b) \in {"nccl", "gloo"}

\* if backend.lower() in ["nccl"]: torch.cuda.set_device(dist_params.local_rank)
binds_device(b) == Lower(b) \in {"nccl"}

\* a // b of Python (floor division), for b # 0
floordiv(a, b) == IF b > 0 THEN a \div b ELSE (0 - a) \div (0 - b)

\* num_machines = dist_params.world_size // dist_params.num_processes_per_machine
local_group_count(dp) == floordiv(dp.world_size, dp.num_processes_per_machine)

\* the range moved up by one rank
ranks_on_i_shifted(k, n) == (k * n + 1)..((k + 1) * n)

\* ranks_on_i = list(range(i * n, (i + 1) * n))
ranks_on_i(k, n) == (k * n)..((k + 1) * n - 1)

\* the new_group calls process p has made
NewGroupCalls(p) == Cardinality({k \in 1..Len(calls[p]) : calls[p][k].op = "new_group"})

\* the handle dist.new_group(ranks) returns in process p
new_group(p, ranks) == [ranks |-> ranks, serial |-> NewGroupCalls(p) + 1]

\* if i == dist_params.machine_rank: the handle is stored
records_handle(k, dp) == k = dp.machine_rank

\* default_distributed_worker up to the body of enable_dist_process_groups:
\* the parameters are resolved, then the backend is asserted
WorkerStart(p) ==
  /\ pc[p] = "start"
  /\ LET dp == resolve_dist_params(bound[p], environ[p])
     IN  IF IsNone(dp) THEN
           /\ Fail(p, "ValueError")
           /\ UNCHANGED dist_params
         ELSE IF ~backend_assert(backend) THEN
           /\ Fail(p, "AssertionError")
           /\ dist_params' = [dist_params EXCEPT ![p] = dp]
         ELSE
           /\ pc' = [pc EXCEPT ![p] = "init"]
           /\ dist_params' = [dist_params EXCEPT ![p] = dp]
           /\ UNCHANGED exc
  /\ pg' = [pg EXCEPT ![p] = None]
  /\ ret' = [ret EXCEPT ![p] = None]
  /\ reached' = [reached EXCEPT ![p] = 0]
  /\ i' = [i EXCEPT ![p] = 0]
  /\ UNCHANGED <<cfgvars, lvars, bound, environ, LOCAL_PROCESS_GROUP, default_pg,
                 calls, scopes, files, fnvars>>

\* the arguments of dist.init_process_group
init_args(p, dp) ==
  <<backend, bound[p].dist_url, dp.world_size, dp.global_rank, bound[p].timeout>>

\* enable_dist_process_groups: dist.init_process_group(...) raises
WorkerInitRaise(p) ==
  /\ pc[p] = "init"
  /\ LET dp == The(dist_params[p])
     IN  IF ~IsDistributedParams(dp) THEN
           /\ Fail(p, "AttributeError")
           /\ UNCHANGED calls
         ELSE
           /\ Fail(p, "GroupFormationError")
           /\ calls' = [calls EXCEPT ![p] =
                          Append(@, Call("init_process_group_raised", init_args(p, dp)))]
  /\ UNCHANGED <<cfgvars, lvars, bound, environ, dist_params, LOCAL_PROCESS_GROUP,
                 pg, default_pg, i, ret, reached, scopes, files, fnvars>>

\* enable_dist_process_groups: dist.init_process_group(...) returns, the device is
\* bound for nccl, and the process arrives at comm.synchronize()
WorkerInit(p) ==
  /\ pc[p] = "init"
  /\ IsDistributedParams(The(dist_params[p]))
  /\ LET dp == The(dist_params[p])
         c1 == Append(calls[p], Call("init_process_group", init_args(p, dp)))
     IN  /\ default_pg' = [default_pg EXCEPT ![p] = TRUE]
         /\ IF binds_device(backend) /\ ~(dp.local_rank \in 0..(device_count - 1))
            THEN /\ Fail(p, "DeviceError")
                 /\ calls' = [calls EXCEPT ![p] = c1]
                 /\ UNCHANGED reached
            ELSE /\ pc' = [pc EXCEPT ![p] = "sync1"]
                 /\ calls' = [calls EXCEPT ![p] =
                      IF binds_device(backend)
                      THEN Append(c1, Call("set_device", <<dp.local_rank>>))
                      ELSE c1]
                 /\ reached' = [reached EXCEPT ![p] = 1]
                 /\ UNCHANGED exc
  /\ UNCHANGED <<cfgvars, lvars, bound, environ, dist_params, LOCAL_PROCESS_GROUP,
                 pg, i, ret, scopes, files, fnvars>>

\* the processes that have arrived at the k-th barrier of the scope
Arrived(k) == {q \in Procs : reached[q] >= k}

\* a worker of the job that will never arrive at the k-th barrier
Lost(q, k) ==
  /\ reached[q] < k
  /\ \/ Exited(q)
     \/ pc[q] = "none" /\ lpc[q[1]] \in {"raised", "returned"}

\* a barrier that releases at once
BarrierOpen_alone(p, k) == TRUE

\* comm.synchronize(): the barrier releases when world_size processes are at it
BarrierOpen(p, k) == Cardinality(Arrived(k)) >= The(dist_params[p]).world_size

\* comm.synchronize() after init_process_group returns
WorkerSync1(p) ==
  /\ pc[p] = "sync1"
  /\ BarrierOpen(p, 1)
  /\ pc' = [pc EXCEPT ![p] = "enter_local"]
  /\ calls' = [calls EXCEPT ![p] = Append(@, Call("synchronize", <<1>>))]
  /\ UNCHANGED <<cfgvars, lvars, bound, environ, dist_params, LOCAL_PROCESS_GROUP,
                 pg, default_pg, i, ret, exc, reached, scopes, files, fnvars>>

\* comm.synchronize() raises: a peer is gone and the timeout elapses
WorkerSyncTimeout(p) ==
  /\ pc[p] \in {"sync1", "sync2"}
  /\ \E q \in ActiveWorkers : Lost(q, reached[p])
  /\ Fail(p, "Timeout")
  /\ UNCHANGED <<cfgvars, lvars, bound, environ, dist_params, LOCAL_PROCESS_GROUP,
                 pg, default_pg, i, calls, ret, reached, scopes, files, fnvars>>
\* WorkerEnterLocal without its assert: the loop starts whatever the slot holds
WorkerEnterLocal_unchecked(p) ==
  /\ pc[p] = "enter_local"
  /\ pc' = [pc EXCEPT ![p] = "new_group"]
  /\ i' = [i EXCEPT ![p] = 0]
  /\ UNCHANGED <<cfgvars, lvars, bound, environ, dist_params, LOCAL_PROCESS_GROUP,
                 pg, default_pg, calls, ret, exc, reached, scopes, files, fnvars>>

\* _enable_local_process_group: assert comm_._LOCAL_PROCESS_GROUP is None, then
\* num_machines is computed and the loop starts
WorkerEnterLocal(p) ==
  /\ pc[p] = "enter_local"
  /\ IF ~IsNone(LOCAL_PROCESS_GROUP[p]) THEN
       /\ Fail(p, "AssertionError")
       /\ UNCHANGED <<i, reached>>
     ELSE IF The(dist_params[p]).num_processes_per_machine = 0 THEN
       /\ Fail(p, "ZeroDivisionError")
       /\ UNCHANGED <<i, reached>>
     ELSE IF local_group_count(The(dist_params[p])) > 0 THEN
       /\ pc' = [pc EXCEPT ![p] = "new_group"]
       /\ i' = [i EXCEPT ![p] = 0]
       /\ UNCHANGED <<exc, reached>>
     ELSE
       /\ pc' = [pc EXCEPT ![p] = "sync2"]
       /\ reached' = [reached EXCEPT ![p] = 2]
       /\ UNCHANGED <<exc, i>>
  /\ UNCHANGED <<cfgvars, lvars, bound, environ, dist_params, LOCAL_PROCESS_GROUP,
                 pg, default_pg, calls, ret, scopes, files, fnvars>>

\* one iteration of the loop: pg = dist.new_group(ranks_on_i), stored when
\* i == machine_rank; after the last one the process arrives at comm.synchronize()
WorkerNewGroup(p) ==
  /\ pc[p] = "new_group"
  /\ LET dp == The(dist_params[p])
         h == new_group(p, ranks_on_i(i[p], dp.num_processes_per_machine))
         last == i[p] + 1 >= local_group_count(dp)
     IN  /\ pg' = [pg EXCEPT ![p] = Some(h)]
         /\ calls' = [calls EXCEPT ![p] = Append(@, Call("new_group", <<h.ranks>>))]
         /\ LOCAL_PROCESS_GROUP' =
              IF records_handle(i[p], dp)
              THEN [LOCAL_PROCESS_GROUP EXCEPT ![p] = Some(h)]
              ELSE LOCAL_PROCESS_GROUP
         /\ i' = [i EXCEPT ![p] = @ + 1]
         /\ pc' = [pc EXCEPT ![p] = IF last THEN "sync2" ELSE "new_group"]
         /\ reached' = [reached EXCEPT ![p] = IF last THEN 2 ELSE @]
  /\ UNCHANGED <<cfgvars, lvars, bound, environ, dist_params, default_pg, ret, exc,
                 scopes, files, fnvars>>

\* comm.synchronize() after the loop returns; the body of the scope starts
WorkerSync2(p) ==
  /\ pc[p] = "sync2"
  /\ BarrierOpen(p, 2)
  /\ pc' = [pc EXCEPT ![p] = "body"]
  /\ calls' = [calls EXCEPT ![p] = Append(@, Call("synchronize", <<2>>))]
  /\ UNCHANGED <<cfgvars, lvars, bound, environ, dist_params, LOCAL_PROCESS_GROUP,
                 pg, default_pg, i, ret, exc, reached, scopes, files, fnvars>>

\* ------------------------------------------------------- save_return_deco
\* torch.save(ret, filename): the bytes written; torch.load(filename) of them
torch_save(v) == <<"pickle", v>>
torch_load(b) == b[2]

FileAt(fs, path) == {f \in fs : f.path = path}
WriteFile(fs, path, data) ==
  {f \in fs : f.path # path} \cup {[path |-> path, data |-> data]}

\* torch.load(f"{return_file}.rank{rank}"): None when there is no such file
read_result(fs, location, rank) ==
  LET at == FileAt(fs, rank_path(location, rank))
  IN  IF at = {} THEN None ELSE Some(torch_load((CHOOSE f \in at : TRUE).data))

\* new_func without its torch.save
save_return_deco_unsaved(return_save_file, rank, outcome, fs) ==
  [ret |-> outcome, func_calls |-> 1, saves |-> <<>>, files |-> fs]

\* new_func of save_return_deco(return_save_file, rank)(func): outcome is what
\* func does (None: it raises; <<v>>: it returns v), fs the files before the call
save_return_deco(return_save_file, rank, outcome, fs) ==
  IF IsNone(outcome)
  THEN [ret |-> None, func_calls |-> 1, saves |-> <<>>, files |-> fs]
  ELSE IF ~IsNone(return_save_file)
  THEN [ret |-> outcome, func_calls |-> 1,
        saves |-> <<rank_path(The(return_save_file), rank)>>,
        files |-> WriteFile(fs, rank_path(The(return_save_file), rank),
                            torch_save(The(outcome)))]
  ELSE [ret |-> outcome, func_calls |-> 1, saves |-> <<>>, files |-> fs]

\* default_distributed_worker: deco(main_func)(*args, **kwargs) inside the scope.
\* An exception leaves both context managers at their yield: neither has a
\* try/finally, so nothing after the yield runs
WorkerBody(p) ==
  /\ pc[p] = "body"
  /\ \E outcome \in {None, Some(main_func(p))} :
       LET r == save_return_deco(bound[p].return_save_file,
                                 The(dist_params[p]).global_rank, outcome, files)
           c1 == Append(calls[p], Call("main_func", <<>>))
       IN  /\ files' = r.files
           /\ ret' = [ret EXCEPT ![p] = r.ret]
           /\ calls' = [calls EXCEPT ![p] =
                          IF Len(r.saves) > 0
                          THEN Append(c1, Call("torch.save", r.saves))
                          ELSE c1]
           /\ IF IsNone(r.ret)
              THEN Fail(p, "UserError")
              ELSE /\ pc' = [pc EXCEPT ![p] = "exit_local"]
                   /\ UNCHANGED exc
  /\ UNCHANGED <<cfgvars, lvars, bound, environ, dist_params, LOCAL_PROCESS_GROUP,
                 pg, default_pg, i, reached, scopes, fnvars>>

\* _enable_local_process_group after the yield:
\* torch.distributed.destroy_process_group(pg)
WorkerDestroyLocal(p) ==
  /\ pc[p] = "exit_local"
  /\ IF IsNone(pg[p]) THEN
       /\ Fail(p, "UnboundLocalError")
       /\ UNCHANGED calls
     ELSE
       /\ pc' = [pc EXCEPT ![p] = "clear_slot"]
       /\ calls' = [calls EXCEPT ![p] =
                      Append(@, Call("destroy_process_group", <<The(pg[p])>>))]
       /\ UNCHANGED exc
  /\ UNCHANGED <<cfgvars, lvars, bound, environ, dist_params, LOCAL_PROCESS_GROUP,
                 pg, default_pg, i, ret, reached, scopes, files, fnvars>>

\* WorkerClearSlot without the assignment: the slot keeps its handle
WorkerClearSlot_kept(p) ==
  /\ pc[p] = "clear_slot"
  /\ pc' = [pc EXCEPT ![p] = "exit_global"]
  /\ UNCHANGED <<cfgvars, lvars, bound, environ, dist_params, LOCAL_PROCESS_GROUP,
                 pg, default_pg, i, calls, ret, exc, reached, scopes, files, fnvars>>

\* _enable_local_process_group: comm_._LOCAL_PROCESS_GROUP = None
WorkerClearSlot(p) ==
  /\ pc[p] = "clear_slot"
  /\ LOCAL_PROCESS_GROUP' = [LOCAL_PROCESS_GROUP EXCEPT ![p] = None]
  /\ pc' = [pc EXCEPT ![p] = "exit_global"]
  /\ UNCHANGED <<cfgvars, lvars, bound, environ, dist_params, pg, default_pg, i,
                 calls, ret, exc, reached, scopes, files, fnvars>>

\* enable_dist_process_groups after the yield: dist.destroy_process_group(); the
\* worker returns main_func's value
WorkerDestroyGlobal(p) ==
  /\ pc[p] = "exit_global"
  /\ default_pg' = [default_pg EXCEPT ![p] = FALSE]
  /\ calls' = [calls EXCEPT ![p] = Append(@, Call("destroy_process_group", <<>>))]
  /\ pc' = [pc EXCEPT ![p] = "done"]
  /\ UNCHANGED <<cfgvars, lvars, bound, environ, dist_params, LOCAL_PROCESS_GROUP,
                 pg, i, ret, exc, reached, scopes, files, fnvars>>

\* ---------------------------------------------------- launch, after the wait
\* the children still running are terminated when one of them has failed
Terminate(m) ==
  pc' = [p \in Procs |-> IF p \in Children(m) /\ ~Exited(p) THEN "killed" ELSE pc[p]]

\* mp.spawn returns (every child exited with success), then
\* torch.load(f"{return_file}.rank{local_ranks[0]}")
SpawnJoin(m) ==
  /\ lpc[m] = "spawn_wait"
  /\ \A c \in Children(m) : pc[c] = "done"
  /\ LET r == read_result(files, return_file(m),
                           local_ranks_first(num_processes_per_machine, m))
     IN  IF IsNone(r) THEN LaunchRaise(m, "FileNotFoundError")
         ELSE LaunchReturn(m, The(r))
  /\ UNCHANGED <<cfgvars, main_calls, started, wvars, files, fnvars>>

\* mp.spawn raises: a child failed
SpawnFail(m) ==
  /\ lpc[m] = "spawn_wait"
  /\ \E c \in Children(m) : pc[c] = "failed"
  /\ Terminate(m)
  /\ LaunchRaise(m, "ProcessRaisedException")
  /\ UNCHANGED <<cfgvars, main_calls, started, bound, environ, dist_params,
                 LOCAL_PROCESS_GROUP, pg, default_pg, i, calls, ret, exc, reached,
                 scopes, files, fnvars>>

\* the mapping the elastic collaborator returns on machine m, one entry per local
\* worker: keyed by the worker's local rank, or by its global rank
elastic_results(m) ==
  LET n == num_processes_per_machine
      first == IF elastic_keys = "global" THEN m * n ELSE 0
  IN  [k \in first..(first + n - 1) |-> The(ret[<<m, k - first>>])]

\* the elastic launch returns its results; return results[local_ranks[0]]
ElasticJoin(m) ==
  /\ lpc[m] = "elastic_wait"
  /\ \A c \in Children(m) : pc[c] = "done"
  /\ LET key == local_ranks_first(num_processes_per_machine, m)
     IN  IF key \in DOMAIN elastic_results(m)
         THEN LaunchReturn(m, elastic_results(m)[key])
         ELSE LaunchRaise(m, "KeyError")
  /\ UNCHANGED <<cfgvars, main_calls, started, wvars, files, fnvars>>

\* the elastic launch raises: a worker failed
ElasticFail(m) ==
  /\ lpc[m] = "elastic_wait"
  /\ \E c \in Children(m) : pc[c] = "failed"
  /\ Terminate(m)
  /\ LaunchRaise(m, "ChildFailedError")
  /\ UNCHANGED <<cfgvars, main_calls, started, bound, environ, dist_params,
                 LOCAL_PROCESS_GROUP, pg, default_pg, i, calls, ret, exc, reached,
                 scopes, files, fnvars>>

\* env://: return _distributed_worker(...), or its exception leaves launch
EnvReturn(m) ==
  /\ lpc[m] = "env_wait"
  /\ pc[Caller(m)] \in {"done", "failed"}
  /\ IF pc[Caller(m)] = "done"
     THEN LaunchReturn(m, The(ret[Caller(m)]))
     ELSE LaunchRaise(m, exc[Caller(m)])
  /\ UNCHANGED <<cfgvars, main_calls, started, wvars, files, fnvars>>

\* ------------------------------------------------------- the job of launches
Backends == {"NCCL", "nccl", "GLOO", "MPI"}
LaunchMethods == {"multiprocessing", "elastic", "thread"}
Addresses == {"None", "env://"}
Timeouts == {DEFAULT_UNITTEST_TIMEOUT}

InitProcs ==
  /\ pc = [p \in Procs |-> "none"]
  /\ bound = [p \in Procs |-> WorkerDefaults]
  /\ environ = [p \in Procs |-> NoEnviron]
  /\ dist_params = [p \in Procs |-> None]
  /\ LOCAL_PROCESS_GROUP = [p \in Procs |-> None]
  /\ pg = [p \in Procs |-> None]
  /\ default_pg = [p \in Procs |-> FALSE]
  /\ i = [p \in Procs |-> 0]
  /\ calls = [p \in Procs |-> <<>>]
  /\ ret = [p \in Procs |-> None]
  /\ exc = [p \in Procs |-> ""]
  /\ reached = [p \in Procs |-> 0]
  /\ scopes = [p \in Procs |-> 0]
  /\ files = {}

InitFn ==
  /\ fn_in = <<>>
  /\ fn_out = <<>>

Init ==
  /\ num_machines \in 1..MaxMachines
  /\ num_processes_per_machine \in 1..MaxProcs
  /\ num_machines * num_processes_per_machine <= MaxWorld
  /\ dist_url \in Addresses
  /\ backend \in Backends
  /\ always_spawn \in BOOLEAN
  /\ launch_method \in LaunchMethods
  /\ timeout \in Timeouts
  /\ device_count \in 0..MaxDevices
  /\ elastic_keys \in {"local", "global"}
  /\ lpc = [m \in Machines |-> IF m < num_machines THEN "idle" ELSE "off"]
  /\ lresult = [m \in Machines |-> None]
  /\ lexc = [m \in Machines |-> ""]
  /\ main_calls = [m \in Machines |-> 0]
  /\ started = [m \in Machines |-> 0]
  /\ InitProcs
  /\ InitFn

Next ==
  \/ \E m \in Machines :
       \/ LaunchDeviceAssert(m)
       \/ LaunchDirect(m)
       \/ LaunchInvalidMethod(m)
       \/ LaunchElastic(m)
       \/ LaunchEnv(m)
       \/ LaunchSpawn(m)
       \/ SpawnJoin(m)
       \/ SpawnFail(m)
       \/ ElasticJoin(m)
       \/ ElasticFail(m)
       \/ EnvReturn(m)
  \/ \E p \in Procs :
       \/ WorkerStart(p)
       \/ WorkerInitRaise(p)
       \/ WorkerInit(p)
       \/ WorkerSync1(p)
       \/ WorkerSyncTimeout(p)
       \/ WorkerEnterLocal(p)
       \/ WorkerNewGroup(p)
       \/ WorkerSync2(p)
       \/ WorkerBody(p)
       \/ WorkerDestroyLocal(p)
       \/ WorkerClearSlot(p)
       \/ WorkerDestroyGlobal(p)

Spec == Init /\ [][Next]_vars

\* ------------------------------------- scopes opened directly in one process
\* the process that calls default_distributed_worker itself
Solo == <<0, 0>>

\* the DistributedParams a direct caller passes: (local_rank, global_rank,
\* machine_rank, num_processes_per_machine, world_size) of a one-process world
DirectParams ==
  {None, DistributedParams(0, 0, 0, 1, 1), DistributedParams(0, 0, 0, 2, 1)}

DirectLocations == {None, Some(PyStr(<<"out.pth">>))}

\* default_distributed_worker(main_func, args, kwargs, backend, dist_url=...,
\* dist_params=..., return_save_file=...), called again once the last call is over
DirectCall(p) ==
  /\ pc[p] \in {"none", "done", "failed"}
  /\ scopes[p] < MaxScopes
  /\ \E dp \in DirectParams, loc \in DirectLocations :
       bound' = [bound EXCEPT ![p] =
                   [dist_url |-> Some(PyStr(<<effective_url(dist_url)>>)),
                    dist_params |-> dp, return_save_file |-> loc,
                    timeout |-> Some(DEFAULT_TIMEOUT)]]
  /\ pc' = [pc EXCEPT ![p] = "start"]
  /\ scopes' = [scopes EXCEPT ![p] = @ + 1]
  /\ exc' = [exc EXCEPT ![p] = ""]
  /\ UNCHANGED <<cfgvars, lvars, environ, dist_params, LOCAL_PROCESS_GROUP, pg,
                 default_pg, i, calls, ret, reached, files, fnvars>>

InitLaunchOff ==
  /\ lpc = [m \in Machines |-> "off"]
  /\ lresult = [m \in Machines |-> None]
  /\ lexc = [m \in Machines |-> ""]
  /\ main_calls = [m \in Machines |-> 0]
  /\ started = [m \in Machines |-> 0]

InitScope ==
  /\ num_machines = 1
  /\ num_processes_per_machine = 1
  /\ dist_url = "None"
  /\ backend \in {"GLOO", "NCCL"}
  /\ always_spawn = FALSE
  /\ launch_method = "multiprocessing"
  /\ timeout \in Timeouts
  /\ device_count \in 0..MaxDevices
  /\ elastic_keys = "global"
  /\ InitLaunchOff
  /\ InitProcs
  /\ InitFn

NextScope ==
  \/ DirectCall(Solo)
  \/ WorkerStart(Solo)
  \/ WorkerInitRaise(Solo)
  \/ WorkerInit(Solo)
  \/ WorkerSync1(Solo)
  \/ WorkerEnterLocal(Solo)
  \/ WorkerNewGroup(Solo)
  \/ WorkerSync2(Solo)
  \/ WorkerBody(Solo)
  \/ WorkerDestroyLocal(Solo)
  \/ WorkerClearSlot(Solo)
  \/ WorkerDestroyGlobal(Solo)

SpecScope == InitScope /\ [][NextScope]_vars

\* ------------------------------------------ one call of DistributedParams
IntInputs == (0 - 1)..MaxInt

InitIdle ==
  /\ num_machines = 1
  /\ num_processes_per_machine = 1
  /\ dist_url = "None"
  /\ backend = "GLOO"
  /\ always_spawn = FALSE
  /\ launch_method = "multiprocessing"
  /\ timeout = DEFAULT_TIMEOUT
  /\ device_count = 0
  /\ elastic_keys = "global"
  /\ InitLaunchOff
  /\ InitProcs

\* fn_in: (local_rank, global_rank, machine_rank, num_processes_per_machine,
\* world_size)
InitParams ==
  /\ InitIdle
  /\ fn_in \in IntInputs \X IntInputs \X IntInputs \X IntInputs \X IntInputs
  /\ fn_out = <<>>

\* DistributedParams(local_rank, global_rank, machine_rank, n, world_size)
Construct ==
  /\ fn_out = <<>>
  /\ fn_out' = <<DistributedParams(fn_in[1], fn_in[2], fn_in[3], fn_in[4], fn_in[5])>>
  /\ UNCHANGED <<cfgvars, lvars, wvars, files, fn_in>>

NextParams == Construct

SpecParams == InitParams /\ [][NextParams]_vars

\* ------------------------------------- one call of from_environ
\* what os.environ holds for a key: nothing, the text of an int, or other text
EnvTexts == {None} \cup {Some(IntStr(k)) : k \in IntInputs} \cup {Some(<<"x">>)}

\* fn_in: os.environ at the five keys, in the order of EnvKeys
InitEnviron ==
  /\ InitIdle
  /\ fn_in \in EnvTexts \X EnvTexts \X EnvTexts \X EnvTexts \X EnvTexts
  /\ fn_out = <<>>

\* DistributedParams.from_environ(): what it returns (None: it raised) and the
\* keys it logged a warning for
FromEnviron ==
  /\ fn_out = <<>>
  /\ fn_out' = <<[params |-> from_environ(fn_in),
                  warnings |-> from_environ_warnings(fn_in)]>>
  /\ UNCHANGED <<cfgvars, lvars, wvars, files, fn_in>>

NextEnviron == FromEnviron

SpecEnviron == InitEnviron /\ [][NextEnviron]_vars

\* ------------------------------- the result files: new_func and torch.load
ChannelRanks == 0..MaxInt
ChannelValues == {main_func(<<0, 0>>), main_func(<<0, 1>>)}
ChannelLocations == {None, Some(return_file(0))}

\* fn_in: the last call and its arguments, the files before it, the number of
\* calls so far, and for each rank the last value a call saved for it
InitChannel ==
  /\ InitIdle
  /\ fn_in = [op |-> "none", location |-> None, rank |-> 0, outcome |-> None,
              before |-> {}, n |-> 0, written |-> [r \in ChannelRanks |-> None]]
  /\ fn_out = <<>>

\* save_return_deco(location, rank)(func)(): func returns v or raises
CallNewFunc ==
  /\ fn_in.n < MaxOps
  /\ \E loc \in ChannelLocations, r \in ChannelRanks,
        outcome \in {None} \cup {Some(v) : v \in ChannelValues} :
       LET res == save_return_deco(loc, r, outcome, files)
       IN  /\ files' = res.files
           /\ fn_out' = <<res>>
           /\ fn_in' = [op |-> "new_func", location |-> loc, rank |-> r,
                        outcome |-> outcome, before |-> files, n |-> fn_in.n + 1,
                        written |-> IF IsNone(loc) \/ IsNone(outcome)
                                    THEN fn_in.written
                                    ELSE [fn_in.written EXCEPT ![r] = outcome]]
  /\ UNCHANGED <<cfgvars, lvars, wvars>>

\* torch.load(f"{return_file}.rank{rank}"), as launch does after mp.spawn
LoadResult ==
  /\ fn_in.n < MaxOps
  /\ \E r \in ChannelRanks :
       /\ fn_out' = <<[ret |-> read_result(files, return_file(0), r),
                       func_calls |-> 0, saves |-> <<>>, files |-> files]>>
       /\ fn_in' = [fn_in EXCEPT !.op = "load", !.location = Some(return_file(0)),
                                 !.rank = r, !.outcome = None, !.before = files,
                                 !.n = @ + 1]
  /\ UNCHANGED <<cfgvars, lvars, wvars, files>>

NextChannel == CallNewFunc \/ LoadResult

SpecChannel == InitChannel /\ [][NextChannel]_vars

\* ================================================================ claims
\* the positions in p's calls of destroy_process_group(pg) and of
\* destroy_process_group()
LocalDestroys(p) ==
  {k \in 1..Len(calls[p]) :
     calls[p][k].op = "destroy_process_group" /\ Len(calls[p][k].arg) = 1}
GlobalDestroys(p) ==
  {k \in 1..Len(calls[p]) :
     calls[p][k].op = "destroy_process_group" /\ Len(calls[p][k].arg) = 0}
NewGroups(p) == {k \in 1..Len(calls[p]) : calls[p][k].op = "new_group"}
GlobalInits(p) == {k \in 1..Len(calls[p]) : calls[p][k].op = "init_process_group"}

\* C1: whenever main_func raises in a worker after the global group and the local
\* groups were created, the local group is destroyed exactly once, then the global
\* group exactly once, before the exception leaves the worker.
C1_TeardownOnRaise ==
  \A p \in Procs :
    (pc[p] = "failed" /\ exc[p] = "UserError"
       /\ GlobalInits(p) # {} /\ NewGroups(p) # {})
    => /\ Cardinality(LocalDestroys(p)) = 1
       /\ Cardinality(GlobalDestroys(p)) = 1
       /\ \A a \in LocalDestroys(p), b \in GlobalDestroys(p) : a < b

\* C2: when main_func returns normally the worker's scope goes init_process_group,
\* the new_group calls, destroy_process_group(pg), the slot cleared, then
\* destroy_process_group(); the global group is never destroyed while the slot is
\* occupied, and each destroy happens exactly once.
C2_TeardownOrder ==
  \A p \in Procs :
    /\ ~IsNone(ret[p]) =>
         pc[p] \in {"exit_local", "clear_slot", "exit_global", "done", "killed"}
    /\ pc[p] = "exit_local" =>
         /\ LocalDestroys(p) = {} /\ GlobalDestroys(p) = {}
         /\ default_pg[p] /\ GlobalInits(p) # {} /\ NewGroups(p) # {}
    /\ pc[p] = "clear_slot" =>
         /\ Cardinality(LocalDestroys(p)) = 1 /\ GlobalDestroys(p) = {}
         /\ default_pg[p]
    /\ pc[p] = "exit_global" =>
         /\ Cardinality(LocalDestroys(p)) = 1 /\ GlobalDestroys(p) = {}
         /\ IsNone(LOCAL_PROCESS_GROUP[p]) /\ default_pg[p]
    /\ pc[p] = "done" =>
         /\ Cardinality(LocalDestroys(p)) = 1 /\ Cardinality(GlobalDestroys(p)) = 1
         /\ IsNone(LOCAL_PROCESS_GROUP[p]) /\ ~default_pg[p]
         /\ \A a \in GlobalInits(p), b \in NewGroups(p) : a < b
         /\ \A b \in NewGroups(p), c \in LocalDestroys(p) : b < c
         /\ \A c \in LocalDestroys(p), d \in GlobalDestroys(p) : c < d
    /\ GlobalDestroys(p) # {} => IsNone(LOCAL_PROCESS_GROUP[p])

\* a worker of machine 0 of a two-machine job went through the whole scope
C2_Witness ==
  \E p \in Workers :
    /\ pc[p] = "done" /\ p[1] = 0 /\ num_machines = 2
    /\ Cardinality(NewGroups(p)) = 2

\* C3: opening the local scope while the slot is occupied fails before any
\* new_group call and leaves the slot holding the handle it held.
C3_OccupiedSlotFails ==
  [][\A p \in Procs :
       (pc[p] = "enter_local" /\ ~IsNone(LOCAL_PROCESS_GROUP[p]) /\ pc'[p] # pc[p])
       => /\ pc'[p] = "failed"
          /\ exc'[p] = "AssertionError"
          /\ calls'[p] = calls[p]
          /\ LOCAL_PROCESS_GROUP'[p] = LOCAL_PROCESS_GROUP[p]]_vars

\* a second scope failed at the assert, the slot still holding the first handle
C3_Witness ==
  \E p \in Procs :
    /\ pc[p] = "failed" /\ exc[p] = "AssertionError" /\ reached[p] = 1
    /\ ~IsNone(LOCAL_PROCESS_GROUP[p])
    /\ The(LOCAL_PROCESS_GROUP[p]).serial = 1
    /\ scopes[p] = 2

\* the branch the launch on machine m took
TookSpawn(m) == started[m] > 0 /\ launch_method = "multiprocessing"
TookElastic(m) == started[m] > 0 /\ launch_method = "elastic"
Finished(m) == lpc[m] \in {"returned", "raised"}
StartedOn(m) == {p \in Workers : p[1] = m /\ pc[p] # "none"}
SpawnParams(p) == The(bound[p].dist_params)

\* C4: a launch that takes the local-spawn branch starts exactly
\* num_processes_per_machine children, reads the result only after all of them
\* exited, finds it, and returns what the child of global rank
\* num_processes_per_machine * machine_rank wrote; on one machine that is rank 0
\* and every child has global_rank = local_rank.
C4_LocalSpawn ==
  \A m \in Machines :
    TookSpawn(m) =>
      LET n == num_processes_per_machine
          firsts == {c \in Children(m) : SpawnParams(c).global_rank = n * m}
      IN  /\ m < num_machines
          /\ started[m] = n
          /\ Cardinality(StartedOn(m)) = n
          /\ Finished(m) /\ lexc[m] # "ProcessRaisedException" =>
               \A c \in Children(m) : pc[c] = "done"
          /\ lexc[m] # "FileNotFoundError"
          /\ Cardinality(firsts) = 1
          /\ lpc[m] = "returned" =>
               \A w \in firsts :
                 /\ lresult[m] = ret[w]
                 /\ w[2] = 0
                 /\ \E k \in 1..Len(calls[w]) :
                      /\ calls[w][k].op = "torch.save"
                      /\ calls[w][k].arg = <<rank_path(return_file(m), n * m)>>
                 /\ read_result(files, return_file(m), n * m) = lresult[m]
          /\ num_machines = 1 =>
               /\ \A c \in Children(m) : SpawnParams(c).global_rank = c[2]
                                         /\ SpawnParams(c).local_rank = c[2]
               /\ \A w \in firsts : SpawnParams(w).global_rank = 0

\* the launch on machine 1 of a job of two processes per machine returned
C4_Witness ==
  /\ TookSpawn(1) /\ lpc[1] = "returned" /\ num_processes_per_machine = 2
  /\ lresult[1] = Some(main_func(<<1, 0>>))

SingleWorkerOutcome(m) ==
  /\ main_calls[m] = 1
  /\ lpc[m] = "returned" => lresult[m] = Some(main_func(Caller(m)))
  /\ lpc[m] = "raised" => lexc[m] = "UserError"
  /\ started[m] = 0
  /\ \A p \in Procs : pc[p] = "none" /\ calls[p] = <<>>
                      /\ IsNone(LOCAL_PROCESS_GROUP[p])
  /\ files = {}

SingleWorker ==
  /\ world_size_of(num_machines, num_processes_per_machine) = 1
  /\ ~always_spawn

\* C6 as claimed: a launch with world_size 1 and always_spawn unset calls
\* main_func exactly once in the calling process and returns its value, with no
\* child, no group call, no file and the slot untouched.
C6_SingleWorkerDirect ==
  \A m \in Machines : (SingleWorker /\ Finished(m)) => SingleWorkerOutcome(m)

\* C6, amended: the same, for a launch that passes the assert on the device count
\* (backend is not "NCCL", or num_processes_per_machine <= device_count); a launch
\* that fails it raises AssertionError and never calls main_func.
C6_SingleWorkerDirectChecked ==
  \A m \in Machines :
    (SingleWorker /\ Finished(m)) =>
      IF backend = "NCCL" /\ num_processes_per_machine > device_count
      THEN main_calls[m] = 0 /\ lexc[m] = "AssertionError"
      ELSE SingleWorkerOutcome(m)

\* a single-worker launch with the NCCL backend and a device returned
C6_Witness ==
  /\ SingleWorker /\ lpc[0] = "returned" /\ main_calls[0] = 1
  /\ backend = "NCCL" /\ device_count >= 1

\* C7: DistributedParams(...) raises exactly when
\* global_rank # machine_rank * num_processes_per_machine + local_rank; otherwise
\* the five fields hold the arguments.
C7_ConstructIffEquation ==
  fn_out # <<>> =>
    LET r == fn_out[1]
        ok == fn_in[2] = fn_in[3] * fn_in[4] + fn_in[1]
    IN  /\ IsNone(r) <=> ~ok
        /\ ~IsNone(r) =>
             /\ The(r).local_rank = fn_in[1]
             /\ The(r).global_rank = fn_in[2]
             /\ The(r).machine_rank = fn_in[3]
             /\ The(r).num_processes_per_machine = fn_in[4]
             /\ The(r).world_size = fn_in[5]

\* a construction raised: global_rank 1 on machine 1 of two processes each
C7_Witness ==
  /\ fn_out # <<>> /\ IsNone(fn_out[1])
  /\ fn_in = <<0, 1, 1, 2, 2>>

\* the worker processes of a multiprocessing job, once every machine has spawned
AllSpawned ==
  /\ launch_method = "multiprocessing"
  /\ \A m \in 0..(num_machines - 1) : started[m] > 0

\* C8: every child of a local-spawn launch gets a DistributedParams that passed
\* validation, and once launch has spawned on every machine the children's global
\* ranks are pairwise distinct and are exactly 0 .. world_size - 1.
C8_SpawnRanks ==
  /\ \A p \in Workers :
       (pc[p] # "none" /\ launch_method = "multiprocessing") =>
         /\ ~IsNone(bound[p].dist_params)
         /\ exc[p] # "ValueError"
         /\ SpawnParams(p).global_rank =
              SpawnParams(p).machine_rank * SpawnParams(p).num_processes_per_machine
                + SpawnParams(p).local_rank
  /\ AllSpawned =>
       /\ \A p \in ActiveWorkers : pc[p] # "none"
       /\ {SpawnParams(p).global_rank : p \in ActiveWorkers} =
            0..(world_size_of(num_machines, num_processes_per_machine) - 1)
       /\ \A p, q \in ActiveWorkers :
            p # q => SpawnParams(p).global_rank # SpawnParams(q).global_rank

\* both machines of a job of two processes per machine have spawned
C8_Witness ==
  /\ AllSpawned /\ num_machines = 2 /\ num_processes_per_machine = 2
  /\ SpawnParams(<<1, 1>>).global_rank = 3

\* C9: new_func calls func once and returns its result unchanged; it writes the
\* result once to '<location>.rank<rank>' when location is given and func
\* returned, and writes nothing when location is absent or func raised.
C9_SaveReturnDeco ==
  (fn_out # <<>> /\ fn_in.op = "new_func") =>
    LET res == fn_out[1]
        path == <<The(fn_in.location).v, ".rank", IntStr(fn_in.rank)>>
    IN  /\ res.func_calls = 1
        /\ res.ret = fn_in.outcome
        /\ files = res.files
        /\ IF IsNone(fn_in.outcome) \/ IsNone(fn_in.location)
           THEN res.saves = <<>> /\ files = fn_in.before
           ELSE /\ res.saves = <<path>>
                /\ \A f \in fn_in.before : f.path # path => f \in files
                /\ \A f \in files : f.path # path => f \in fn_in.before
                /\ \E f \in files : f.path = path /\ torch_load(f.data) = The(fn_in.outcome)
                /\ Cardinality({f \in files : f.path = path}) = 1

\* a call with a location whose func returned wrote the file
C9_Witness ==
  /\ fn_out # <<>> /\ fn_in.op = "new_func"
  /\ ~IsNone(fn_in.location) /\ ~IsNone(fn_in.outcome)
  /\ Len(fn_out[1].saves) = 1 /\ files # fn_in.before

\* C10: loading the path of a rank nothing was saved for fails; a save for rank r
\* followed by a load for r gives the saved value; a save for r never changes what
\* a load for another rank gives.
C10_ResultChannel ==
  fn_in.op \in {"new_func", "load"} =>
    /\ \A r \in ChannelRanks :
         read_result(files, return_file(0), r) = fn_in.written[r]
    /\ fn_in.op = "load" => fn_out[1].ret = fn_in.written[fn_in.rank]

\* ranks 0 and 1 hold different values and the load for rank 0 gave rank 0's
C10_Witness ==
  /\ fn_in.op = "load" /\ fn_in.rank = 0
  /\ fn_in.written[0] = Some(main_func(<<0, 0>>))
  /\ fn_in.written[1] = Some(main_func(<<0, 1>>))
  /\ fn_out[1].ret = Some(main_func(<<0, 0>>))

\* the launch on machine m got past its checks
Launched(m) == lpc[m] \notin {"off", "idle"}

\* C11: a launch that would create workers with a backend the worker binds a
\* device for (nccl in any letter case) and with more processes per machine than
\* devices fails before any child is spawned and before any group-creation call.
C11_DeviceCheckAnyCase ==
  (/\ binds_device(backend)
   /\ num_processes_per_machine > device_count
   /\ takes_workers(world_size_of(num_machines, num_processes_per_machine),
                    always_spawn))
  => /\ \A m \in Machines :
          /\ started[m] = 0
          /\ Launched(m) => lpc[m] = "raised"
     /\ \A p \in Procs : GlobalInits(p) = {} /\ NewGroups(p) = {}

\* C12: a launch with a launch_method other than multiprocessing and elastic
\* fails, spawns no child and does not run main_func, whatever the world size and
\* always_spawn.
C12_InvalidMethodFails ==
  \A m \in Machines :
    (~valid_launch_method(launch_method) /\ Launched(m))
    => /\ lpc[m] = "raised"
       /\ main_calls[m] = 0
       /\ started[m] = 0

\* C13: from_environ with none of the five variables set returns (0, 0, 0, 1, 1)
\* without a validation failure and logs one warning per missing variable, five in
\* all; a variable that is set gives no warning and its value is used.
C13_FromEnviron ==
  fn_out # <<>> =>
    LET out == fn_out[1]
        unset == {k \in 1..5 : fn_in[k] = None}
    IN  /\ fn_in = <<None, None, None, None, None>> =>
             /\ out.params = Some([type |-> "DistributedParams", local_rank |-> 0,
                                   global_rank |-> 0, machine_rank |-> 0,
                                   num_processes_per_machine |-> 1,
                                   world_size |-> 1])
             /\ Cardinality(out.warnings) = 5
        /\ out.warnings = unset
        /\ ~IsNone(out.params) =>
             LET dp == The(out.params)
                 got == <<dp.local_rank, dp.global_rank, dp.machine_rank,
                          dp.num_processes_per_machine, dp.world_size>>
             IN  \A k \in 1..5 :
                   /\ \A j \in IntInputs : fn_in[k] = Some(IntStr(j)) => got[k] = j
                   /\ fn_in[k] = None => got[k] = <<0, 0, 0, 1, 1>>[k]

\* from_environ ran with no variable set and returned parameters
C13_Witness ==
  /\ fn_out # <<>> /\ fn_in = <<None, None, None, None, None>>
  /\ ~IsNone(fn_out[1].params) /\ Cardinality(fn_out[1].warnings) = 5

\* the group-creation calls of p, in the order p made them
IsGroupCreation(c) == c.op \in {"init_process_group", "new_group"}
GroupCreations(p) == SelectSeq(calls[p], IsGroupCreation)

\* the workers that have made every group-creation call of their scope
Formed == {p \in Procs : reached[p] = 2}

\* C14: every worker of a job makes the same group-creation calls whatever its
\* machine_rank: init_process_group once, then world_size / n new_group calls in
\* ascending i, the i-th over the ranks i*n .. (i+1)*n - 1; the slot gets a handle
\* only at i = machine_rank.
C14_SameGroupCalls ==
  LET n == num_processes_per_machine
      cnt == world_size_of(num_machines, n) \div n
  IN  /\ \A p \in Formed :
           LET g == GroupCreations(p)
               mr == The(dist_params[p]).machine_rank
           IN  /\ Len(g) = 1 + cnt
               /\ g[1].op = "init_process_group"
               /\ \A k \in 1..cnt :
                    /\ g[k + 1].op = "new_group"
                    /\ g[k + 1].arg = <<((k - 1) * n)..(k * n - 1)>>
               /\ pc[p] \in {"sync2", "body", "exit_local", "clear_slot"} =>
                    LOCAL_PROCESS_GROUP[p] =
                      Some([ranks |-> (mr * n)..(mr * n + n - 1), serial |-> mr + 1])
      /\ \A p, q \in Formed : Tail(GroupCreations(p)) = Tail(GroupCreations(q))
      /\ \A p \in Procs :
           pc[p] = "new_group" =>
             (IsNone(LOCAL_PROCESS_GROUP[p]) <=> i[p] <= The(dist_params[p]).machine_rank)

\* on a job of two machines, a worker of machine 0 and one of machine 1 have both
\* made their calls
C14_Witness ==
  /\ num_machines = 2 /\ num_processes_per_machine = 2
  /\ <<0, 1>> \in Formed /\ <<1, 0>> \in Formed
  /\ The(LOCAL_PROCESS_GROUP[<<1, 0>>]).ranks = 2..3

\* whether p has called main_func
RanBody(p) == \E k \in 1..Len(calls[p]) : calls[p][k].op = "main_func"

\* C15: with a barrier that releases when all world_size workers are at it, in
\* every interleaving no worker calls new_group before every worker of the job has
\* created the global group, and no worker starts main_func before every worker
\* has created the global group and all of its local groups.
C15_BarriersOrder ==
  \A p \in Procs :
    /\ NewGroups(p) # {} =>
         \A q \in ActiveWorkers : GlobalInits(q) # {}
    /\ RanBody(p) =>
         \A q \in ActiveWorkers :
           /\ GlobalInits(q) # {}
           /\ Cardinality(NewGroups(q)) =
                world_size_of(num_machines, num_processes_per_machine)
                  \div num_processes_per_machine

\* on a job of two machines with two processes each, a worker has called main_func
\* while another has not yet passed the second barrier
C15_Witness ==
  /\ num_machines = 2 /\ num_processes_per_machine = 2
  /\ RanBody(<<0, 0>>) /\ pc[<<1, 1>>] = "sync2"

\* p is not inside a call of default_distributed_worker
OutsideScope(p) == pc[p] \in {"none", "done", "failed"}

\* C16: whenever a process is outside every enable_dist_process_groups scope its
\* local-group slot is empty, after any sequence of scopes, those whose main_func
\* raised included, so that a later scope can be opened in the same process.
C16_SlotEmptyOutside ==
  \A p \in Procs : OutsideScope(p) => IsNone(LOCAL_PROCESS_GROUP[p])

\* the ranks of the machine of worker p
OwnRanks(p) ==
  LET dp == The(dist_params[p])
  IN  (dp.machine_rank * dp.num_processes_per_machine)..
        ((dp.machine_rank + 1) * dp.num_processes_per_machine - 1)

\* C17: for every worker with 0 <= machine_rank < num_machines, while main_func
\* runs the slot holds the group over exactly the ranks of the worker's own
\* machine, its own global_rank among them, and the handle destroyed at scope exit
\* is the handle held in the slot, on every machine and not only the last.
C17_DestroysOwnGroup ==
  \A p \in Workers :
    /\ pc[p] = "body" =>
         /\ ~IsNone(LOCAL_PROCESS_GROUP[p])
         /\ The(LOCAL_PROCESS_GROUP[p]).ranks = OwnRanks(p)
         /\ The(dist_params[p]).global_rank \in The(LOCAL_PROCESS_GROUP[p]).ranks
         /\ Cardinality(The(LOCAL_PROCESS_GROUP[p]).ranks) = num_processes_per_machine
    /\ pc[p] = "clear_slot" =>
         calls[p][Len(calls[p])] =
           Call("destroy_process_group", <<The(LOCAL_PROCESS_GROUP[p])>>)

\* the torch.save calls of p
Saves(p) == {k \in 1..Len(calls[p]) : calls[p][k].op = "torch.save"}

\* C18: under the elastic strategy every worker the collaborator starts creates
\* its global group with the timeout given to launch and with no address, resolves
\* its parameters from the environment, and has no result location, so that it
\* writes no result file.
C18_ElasticWorkerCall ==
  \A m \in Machines : \A p \in Children(m) :
    (TookElastic(m) /\ pc[p] # "none") =>
      /\ IsNone(bound[p].dist_params)
      /\ IsNone(bound[p].dist_url)
      /\ IsNone(bound[p].return_save_file)
      /\ bound[p].timeout = Some(timeout)
      /\ \A k \in GlobalInits(p) :
           /\ calls[p][k].arg[2] = None
           /\ calls[p][k].arg[5] = Some(timeout)
      /\ Saves(p) = {}
      /\ files = {}

\* the launch on machine m ran the worker in its own process
TookEnv(m) == pc[Caller(m)] # "none"

\* C19: a multiprocessing launch with an env:// address (world_size > 1 or
\* always_spawn) spawns no child and runs the worker once in the calling process;
\* the worker resolves its parameters from the environment, creates the global
\* group with launch's address and timeout, runs main_func inside the scope, and
\* launch returns main_func's value.
C19_EnvInProcess ==
  \A m \in Machines :
    TookEnv(m) =>
      LET w == Caller(m)
      IN  /\ started[m] = 0
          /\ IsNone(bound[w].dist_params)
          /\ bound[w].dist_url = Some(PyStr(<<effective_url(dist_url)>>))
          /\ bound[w].timeout = Some(timeout)
          /\ Finished(m) =>
               /\ Cardinality(GlobalInits(w)) = 1
               /\ RanBody(w)
               /\ exc[w] \in {"", "UserError", "Timeout", "GroupFormationError"}
               /\ lpc[m] = "returned" => lresult[m] = Some(main_func(w))

\* C20: every DistributedParams that is constructed satisfies
\* 0 <= local_rank < num_processes_per_machine and 0 <= global_rank < world_size.
C20_RanksInRange ==
  (fn_out # <<>> /\ ~IsNone(fn_out[1])) =>
    LET dp == The(fn_out[1])
    IN  /\ 0 <= dp.local_rank /\ dp.local_rank < dp.num_processes_per_machine
        /\ 0 <= dp.global_rank /\ dp.global_rank < dp.world_size

====
